---------------------------- MODULE Spec2Model ----------------------------
(***************************************************************************)
(* Model of pkg/store: the Store interface (store.go) and its bbolt        *)
(* implementation BboltStore.  A namespace is one top-level                *)
(* bucket of the bbolt file; a bucket is a B+tree, modelled as the         *)
(* sequence of its (key, value) pairs in ascending byte order.  The        *)
(* engine calls made by the handlers (db.Update, db.View,                  *)
(* tx.CreateBucketIfNotExists, tx.Bucket, Bucket.Put/Get/Delete, Cursor    *)
(* First/Seek/Next, db.Close) are modelled by their documented behaviour   *)
(* in go.etcd.io/bbolt, at the place the handler calls them.               *)
(***************************************************************************)
EXTENDS Integers, Sequences, FiniteSets, TLC

\* ------------------------------------------------------------- bounds
\* Number of public calls of one run of the sequential client.
MaxOps == 3
\* Number of public calls of one run of the concurrent clients.
MaxCalls == 3
\* Number of NewStore and store Close calls of one run of the factory client.
MaxNew == 4

\* Byte values of keys, prefixes and values.
Byte == {1, 2}

\* Inputs of the calls: namespaces ([]byte(namespace)), keys, prefixes and
\* values, each a byte sequence; the empty one is among them.
Namespaces == {<<>>, <<1>>, <<2>>}
Keys == {<<>>, <<1>>, <<1, 1>>, <<1, 2>>, <<2>>}
Prefixes == {<<>>} \cup {<<a>> : a \in Byte} \cup {<<a, b>> : a \in Byte, b \in Byte}
Values == {<<>>, <<1>>}

\* ------------------------------------------------------------- errors
\* A Go error is modelled by its message: the sequence of its fixed parts
\* (text) and the argument formatted into it (arg).
NilErr == [text |-> <<>>, arg |-> <<>>]
ErrDatabaseNotOpen == [text |-> <<"database not open">>, arg |-> <<>>]
ErrBucketNameRequired == [text |-> <<"bucket name required">>, arg |-> <<>>]
ErrKeyRequired == [text |-> <<"key required">>, arg |-> <<>>]
ErrCommit == [text |-> <<"commit failed">>, arg |-> <<>>]

\* fmt.Errorf("<prefix> ...: %v", err): a new error whose message is the
\* prefix followed by the message of err.
Errorf(prefix, arg, err) == [text |-> <<prefix>> \o err.text, arg |-> arg]

\* fmt.Errorf("bucket no encontrado: %s", namespace)
ErrBucketNotFound(ns) == [text |-> <<"bucket no encontrado">>, arg |-> ns]
\* fmt.Errorf("clave no encontrada: %s", string(key))
ErrKeyNotFound(k) == [text |-> <<"clave no encontrada">>, arg |-> k]


\* ------------------------------------------------------------ byte slices
\* A Go []byte handed to the caller: nil or not, its bytes, and whether it
\* shares memory with the engine (a view into the memory-mapped file, valid
\* only for the life of the transaction) or is the caller's own.
NilSlice == [isnil |-> TRUE, data |-> <<>>, alias |-> FALSE]
EngineSlice(bytes) == [isnil |-> FALSE, data |-> bytes, alias |-> TRUE]

\* bytes.Compare(a, b) < 0: lexicographic order by byte value.
LessBytes(a, b) ==
  \E i \in 1..(Len(a) + 1) :
    /\ i <= Len(b)
    /\ \A j \in 1..(i - 1) : a[j] = b[j]
    /\ (i > Len(a) \/ a[i] < b[i])

\* bytes.HasPrefix(k, prefix)
HasPrefix(k, prefix) ==
  /\ Len(prefix) <= Len(k)
  /\ SubSeq(k, 1, Len(prefix)) = prefix

\* ------------------------------------------------------------ the engine
\* The contents seen by a transaction: a function from the names of the
\* existing buckets to each bucket's pairs [k, v] in ascending key order.
EmptyDB == [ns \in {} |-> <<>>]

\* tx.Bucket(name) != nil
BucketExists(tx, ns) == ns \in DOMAIN tx

\* Cursor.Seek(seek): the position of the first pair whose key is >= seek;
\* a position past the last pair is the cursor's nil key.
CursorSeek(b, seek) ==
  LET ge == {i \in 1..Len(b) : ~LessBytes(b[i].k, seek)}
  IN  IF ge = {} THEN Len(b) + 1 ELSE CHOOSE i \in ge : \A j \in ge : i <= j

\* Cursor.First()
CursorFirst(b) == 1

\* Cursor.Next()
CursorNext(i) == i + 1

\* The key a cursor position yields: nil past the end, else a view of the
\* engine's memory.
CursorKey(b, i) == IF i > Len(b) THEN NilSlice ELSE EngineSlice(b[i].k)

\* tx.CreateBucketIfNotExists(name): ErrBucketNameRequired for an empty
\* name, the existing bucket if there is one, else a new empty bucket.
CreateBucketIfNotExists(tx, ns) ==
  IF Len(ns) = 0 THEN [tx |-> tx, err |-> ErrBucketNameRequired]
  ELSE IF BucketExists(tx, ns) THEN [tx |-> tx, err |-> NilErr]
  ELSE [tx |-> [n \in DOMAIN tx \cup {ns} |-> IF n = ns THEN <<>> ELSE tx[n]],
        err |-> NilErr]

\* Bucket.Put(key, value): ErrKeyRequired for an empty key; else the pair
\* replaces the pair of the same key or is inserted at its place in order.
BucketPut(b, k, v) ==
  IF Len(k) = 0 THEN [b |-> b, err |-> ErrKeyRequired]
  ELSE LET i == CursorSeek(b, k)
       IN  IF i <= Len(b) /\ b[i].k = k
           THEN [b |-> [b EXCEPT ![i] = [k |-> k, v |-> v]], err |-> NilErr]
           ELSE [b |-> SubSeq(b, 1, i - 1) \o <<[k |-> k, v |-> v]>>
                         \o SubSeq(b, i, Len(b)),
                 err |-> NilErr]

\* The mutant of BucketGet: a stored value of length zero comes back as nil.
BucketGetNilWhenEmpty(b, k) ==
  LET i == CursorSeek(b, k)
  IN  IF i <= Len(b) /\ b[i].k = k /\ Len(b[i].v) > 0
      THEN EngineSlice(b[i].v) ELSE NilSlice

\* Bucket.Get(key): nil if the key is absent, else a view of the stored
\* value (not nil, also for a value of length zero).
BucketGet(b, k) ==
  LET i == CursorSeek(b, k)
  IN  IF i <= Len(b) /\ b[i].k = k THEN EngineSlice(b[i].v) ELSE NilSlice

\* Bucket.Delete(key): removes the pair if present; no error if absent.
BucketDelete(b, k) ==
  LET i == CursorSeek(b, k)
  IN  IF i <= Len(b) /\ b[i].k = k
      THEN [b |-> SubSeq(b, 1, i - 1) \o SubSeq(b, i + 1, Len(b)), err |-> NilErr]
      ELSE [b |-> b, err |-> NilErr]

\* The mutant of DbUpdate: the changes of a failed closure are kept.
DbUpdateNoRollback(opened, before, res, commitOK) ==
  IF ~opened THEN [data |-> before, err |-> ErrDatabaseNotOpen]
  ELSE IF res.err # NilErr THEN [data |-> res.tx, err |-> res.err]
  ELSE IF ~commitOK THEN [data |-> before, err |-> ErrCommit]
  ELSE [data |-> res.tx, err |-> NilErr]

\* db.Update(fn): ErrDatabaseNotOpen on a closed database; rollback when
\* fn returns an error or the commit fails; else the changes are committed.
\* res is what fn did to the transaction's view and the error it returned.
DbUpdate(opened, before, res, commitOK) ==
  IF ~opened THEN [data |-> before, err |-> ErrDatabaseNotOpen]
  ELSE IF res.err # NilErr THEN [data |-> before, err |-> res.err]
  ELSE IF ~commitOK THEN [data |-> before, err |-> ErrCommit]
  ELSE [data |-> res.tx, err |-> NilErr]

\* What a read handler hands back: its error, the value (Get), the keys
\* (ListKeys, KeysByPrefix) and the lines printed (Dump).  ZeroRes is the
\* handler's result variables as declared, before the closure runs.
ZeroRes == [err |-> NilErr, val |-> NilSlice, keys |-> <<>>, out |-> <<>>]

\* The mutant of DbView: a closed database is not noticed.
DbViewNoCheck(opened, res) == res

\* db.View(fn): ErrDatabaseNotOpen on a closed database (fn is not run, the
\* handler's result variables keep their zero values), else what fn did.
DbView(opened, res) ==
  IF ~opened THEN [ZeroRes EXCEPT !.err = ErrDatabaseNotOpen] ELSE res

\* ---------------------------------------------------------- the handlers
\* kCopy := make([]byte, len(k)); copy(kCopy, k): the caller's own bytes.
CopyBytes(s) == [isnil |-> FALSE, data |-> s.data, alias |-> FALSE]

\* The mutant of PutFn: a key already present keeps its value.
PutFnNoOverwrite(tx, ns, k, v) ==
  LET c == CreateBucketIfNotExists(tx, ns)
  IN  IF c.err # NilErr
      THEN [tx |-> c.tx, err |-> Errorf("error al crear/abrir bucket", ns, c.err)]
      ELSE IF ~BucketGet(c.tx[ns], k).isnil THEN [tx |-> c.tx, err |-> NilErr]
      ELSE LET p == BucketPut(c.tx[ns], k, v)
           IN  [tx |-> [c.tx EXCEPT ![ns] = p.b], err |-> p.err]

\* The mutant of PutFn: the error of b.Put is dropped.
PutFnDropsError(tx, ns, k, v) ==
  LET c == CreateBucketIfNotExists(tx, ns)
  IN  IF c.err # NilErr
      THEN [tx |-> c.tx, err |-> Errorf("error al crear/abrir bucket", ns, c.err)]
      ELSE LET p == BucketPut(c.tx[ns], k, v)
           IN  [tx |-> [c.tx EXCEPT ![ns] = p.b], err |-> NilErr]

\* The mutant of PutFn: every namespace is kept in one bucket, the first
\* one the file has.
PutFnOneBucket(tx, ns, k, v) ==
  LET c == CreateBucketIfNotExists(tx, ns)
  IN  IF c.err # NilErr
      THEN [tx |-> c.tx, err |-> Errorf("error al crear/abrir bucket", ns, c.err)]
      ELSE LET n == CHOOSE m \in DOMAIN c.tx :
                      \A o \in DOMAIN c.tx : m = o \/ LessBytes(m, o)
               p == BucketPut(c.tx[n], k, v)
           IN  [tx |-> [c.tx EXCEPT ![n] = p.b], err |-> p.err]

\* The mutant of PutFn: the bucket is made anew by every Put, so that it
\* holds the pair just written and nothing else.
PutFnFreshBucket(tx, ns, k, v) ==
  LET c == CreateBucketIfNotExists(tx, ns)
  IN  IF c.err # NilErr
      THEN [tx |-> c.tx, err |-> Errorf("error al crear/abrir bucket", ns, c.err)]
      ELSE LET p == BucketPut(<<>>, k, v)
           IN  [tx |-> [c.tx EXCEPT ![ns] = p.b], err |-> p.err]

\* The closure of Put: create or open the bucket, then b.Put(key, value).
\* tx is the view after what the closure did, err the error it returned.
PutFn(tx, ns, k, v) ==
  LET c == CreateBucketIfNotExists(tx, ns)
  IN  IF c.err # NilErr
      THEN [tx |-> c.tx, err |-> Errorf("error al crear/abrir bucket", ns, c.err)]
      ELSE LET p == BucketPut(c.tx[ns], k, v)
           IN  [tx |-> [c.tx EXCEPT ![ns] = p.b], err |-> p.err]

\* BboltStore.Put
PutCall(opened, data, ns, k, v, commitOK) ==
  DbUpdate(opened, data, PutFn(data, ns, k, v), commitOK)

\* The mutant of GetFn: a value of length zero is taken for a missing key.
GetFnEmptyIsMissing(tx, ns, k) ==
  IF ~BucketExists(tx, ns)
  THEN [ZeroRes EXCEPT !.err = ErrBucketNotFound(ns)]
  ELSE LET val == BucketGet(tx[ns], k)
       IN  IF val.isnil \/ Len(val.data) = 0
           THEN [ZeroRes EXCEPT !.err = ErrKeyNotFound(k), !.val = val]
           ELSE [ZeroRes EXCEPT !.val = val]

\* The closure of Get.
GetFn(tx, ns, k) ==
  IF ~BucketExists(tx, ns)
  THEN [ZeroRes EXCEPT !.err = ErrBucketNotFound(ns)]
  ELSE LET val == BucketGet(tx[ns], k)
       IN  IF val.isnil
           THEN [ZeroRes EXCEPT !.err = ErrKeyNotFound(k), !.val = val]
           ELSE [ZeroRes EXCEPT !.val = val]

\* BboltStore.Get
GetCall(opened, data, ns, k) == DbView(opened, GetFn(data, ns, k))

\* The mutant of DeleteFn: the bucket is found but b.Delete is not called.
DeleteFnKeepsKey(tx, ns, k) ==
  IF ~BucketExists(tx, ns)
  THEN [tx |-> tx, err |-> ErrBucketNotFound(ns)]
  ELSE [tx |-> tx, err |-> NilErr]

\* The mutant of DeleteFn: a key that is not in the bucket is an error, as
\* it is for Get.
DeleteFnStrict(tx, ns, k) ==
  IF ~BucketExists(tx, ns)
  THEN [tx |-> tx, err |-> ErrBucketNotFound(ns)]
  ELSE IF BucketGet(tx[ns], k).isnil
       THEN [tx |-> tx, err |-> ErrKeyNotFound(k)]
       ELSE LET d == BucketDelete(tx[ns], k)
            IN  [tx |-> [tx EXCEPT ![ns] = d.b], err |-> d.err]

\* The mutant of DeleteFn: a bucket left without keys is removed
\* (tx.DeleteBucket).
DeleteFnDropsEmptyBucket(tx, ns, k) ==
  IF ~BucketExists(tx, ns)
  THEN [tx |-> tx, err |-> ErrBucketNotFound(ns)]
  ELSE LET d == BucketDelete(tx[ns], k)
       IN  IF Len(d.b) = 0
           THEN [tx |-> [n \in DOMAIN tx \ {ns} |-> tx[n]], err |-> d.err]
           ELSE [tx |-> [tx EXCEPT ![ns] = d.b], err |-> d.err]

\* The mutant of DeleteFn: the bucket is opened with
\* tx.CreateBucketIfNotExists, as Put opens it, instead of tx.Bucket.
DeleteFnCreatesBucket(tx, ns, k) ==
  LET c == CreateBucketIfNotExists(tx, ns)
  IN  IF c.err # NilErr
      THEN [tx |-> c.tx, err |-> ErrBucketNotFound(ns)]
      ELSE LET d == BucketDelete(c.tx[ns], k)
           IN  [tx |-> [c.tx EXCEPT ![ns] = d.b], err |-> d.err]

\* The closure of Delete.
DeleteFn(tx, ns, k) ==
  IF ~BucketExists(tx, ns)
  THEN [tx |-> tx, err |-> ErrBucketNotFound(ns)]
  ELSE LET d == BucketDelete(tx[ns], k)
       IN  [tx |-> [tx EXCEPT ![ns] = d.b], err |-> d.err]

\* BboltStore.Delete
DeleteCall(opened, data, ns, k, commitOK) ==
  DbUpdate(opened, data, DeleteFn(data, ns, k), commitOK)

\* The loop of ListKeys from cursor position i on: each key is copied and
\* appended until the cursor yields nil.
RECURSIVE ListLoop(_, _, _)
ListLoop(b, i, keys) ==
  LET k == CursorKey(b, i)
  IN  IF k.isnil THEN keys
      ELSE ListLoop(b, CursorNext(i), Append(keys, CopyBytes(k)))

\* The mutant of ListKeysFn: the loop starts at c.Next() instead of c.First().
ListKeysFnSkipFirst(tx, ns) ==
  IF ~BucketExists(tx, ns)
  THEN [ZeroRes EXCEPT !.err = ErrBucketNotFound(ns)]
  ELSE [ZeroRes EXCEPT !.keys = ListLoop(tx[ns], CursorNext(CursorFirst(tx[ns])), <<>>)]

\* The mutant of ListKeysFn: a namespace that does not exist lists as an
\* empty one.
ListKeysFnMissingIsEmpty(tx, ns) ==
  IF ~BucketExists(tx, ns)
  THEN ZeroRes
  ELSE [ZeroRes EXCEPT !.keys = ListLoop(tx[ns], CursorFirst(tx[ns]), <<>>)]

\* The closure of ListKeys.
ListKeysFn(tx, ns) ==
  IF ~BucketExists(tx, ns)
  THEN [ZeroRes EXCEPT !.err = ErrBucketNotFound(ns)]
  ELSE [ZeroRes EXCEPT !.keys = ListLoop(tx[ns], CursorFirst(tx[ns]), <<>>)]

\* BboltStore.ListKeys
ListKeysCall(opened, data, ns) == DbView(opened, ListKeysFn(data, ns))

\* The loop of KeysByPrefix from cursor position i on: it goes on while the
\* cursor's key is not nil and starts with prefix.
RECURSIVE PrefixLoop(_, _, _, _)
PrefixLoop(b, prefix, i, keys) ==
  LET k == CursorKey(b, i)
  IN  IF k.isnil \/ ~HasPrefix(k.data, prefix) THEN keys
      ELSE PrefixLoop(b, prefix, CursorNext(i), Append(keys, CopyBytes(k)))

\* The mutant of KeysByPrefixFn: the loop starts at c.First() instead of
\* c.Seek(prefix).
KeysByPrefixFnFromFirst(tx, ns, prefix) ==
  IF ~BucketExists(tx, ns)
  THEN [ZeroRes EXCEPT !.err = ErrBucketNotFound(ns)]
  ELSE [ZeroRes EXCEPT
          !.keys = PrefixLoop(tx[ns], prefix, CursorFirst(tx[ns]), <<>>)]

\* The closure of KeysByPrefix.
KeysByPrefixFn(tx, ns, prefix) ==
  IF ~BucketExists(tx, ns)
  THEN [ZeroRes EXCEPT !.err = ErrBucketNotFound(ns)]
  ELSE [ZeroRes EXCEPT
          !.keys = PrefixLoop(tx[ns], prefix, CursorSeek(tx[ns], prefix), <<>>)]

\* BboltStore.KeysByPrefix
KeysByPrefixCall(opened, data, ns, prefix) ==
  DbView(opened, KeysByPrefixFn(data, ns, prefix))

\* tx.ForEach visits the buckets in ascending order of their names.
RECURSIVE SortedNames(_)
SortedNames(S) ==
  IF S = {} THEN <<>>
  ELSE LET m == CHOOSE x \in S : \A y \in S \ {x} : LessBytes(x, y)
       IN  <<m>> \o SortedNames(S \ {m})

\* b.ForEach of Dump: one printed line per pair, in key order.
DumpPairs(ns, b) ==
  [i \in 1..Len(b) |-> [line |-> "Key", ns |-> ns, k |-> b[i].k, v |-> b[i].v]]

RECURSIVE DumpBuckets(_, _)
DumpBuckets(tx, names) ==
  IF names = <<>> THEN <<>>
  ELSE <<[line |-> "Bucket", ns |-> Head(names), k |-> <<>>, v |-> <<>>]>>
         \o DumpPairs(Head(names), tx[Head(names)])
         \o DumpBuckets(tx, Tail(names))

\* The closure of Dump: the lines it prints.
DumpFn(tx) == [ZeroRes EXCEPT !.out = DumpBuckets(tx, SortedNames(DOMAIN tx))]

\* BboltStore.Dump: an error of the view is wrapped in a new error.
DumpCall(opened, data) ==
  LET r == DbView(opened, DumpFn(data))
  IN  IF r.err # NilErr
      THEN [r EXCEPT !.err = Errorf("error al hacer el volcado de depuracion", <<>>, r.err)]
      ELSE r

\* ------------------------------------------------------------- the state
VARIABLES
  opened,   \* the bbolt database is open (BboltStore.db)
  data,     \* the committed contents of the file
  ret,      \* the last public call of the sequential client and its result
  held,     \* the byte buffers the last successful read handed to the caller
  live,     \* history: the entries [ns, k, v] of the last committed Put of
            \* each (namespace, key) with no later committed Delete
  created,  \* history: the namespaces some committed Put wrote to
  gone,     \* history: the pairs [ns, k] whose entry a committed Delete
            \* removed, with no committed Put of the pair since
  nops,     \* number of public calls made
  thr,      \* the concurrent clients: each one's call in progress
  wlock,    \* the client that holds the engine's writer lock, or 0
  serial,   \* history: the contents obtained by running the write calls one
            \* after another, whole, in the order of their commits
  ncalls,   \* number of public calls the concurrent clients have made
  files,    \* the paths at which a database file exists on disk
  stores,   \* the paths whose file a store returned by NewStore holds open
  made,     \* the last NewStore call and its result
  nnew      \* number of NewStore and store Close calls made

seqvars == <<ret, held, live, created, gone, nops>>
concvars == <<thr, wlock, serial, ncalls>>
facvars == <<files, stores, made, nnew>>
vars ==
  <<opened, data, ret, held, live, created, gone, nops, thr, wlock, serial,
    ncalls, files, stores, made, nnew>>

\* The history after a committed Put(ns, k, v); over says that this Put
\* replaced another value.
LivePut(h, ns, k, v) ==
  {e \in h : ~(e.ns = ns /\ e.k = k)}
    \cup {[ns |-> ns, k |-> k, v |-> v,
            over |-> \E e \in h : e.ns = ns /\ e.k = k /\ e.v # v]}

\* The history after a committed Delete(ns, k).
LiveDelete(h, ns, k) == {e \in h : ~(e.ns = ns /\ e.k = k)}

NoCall ==
  [op |-> "none", ns |-> <<>>, k |-> <<>>, v |-> <<>>, err |-> NilErr,
   val |-> NilSlice, keys |-> <<>>, out |-> <<>>]

\* The call op(ns, k, v) with the result r of its handler.
Returned(op, ns, k, v, r) ==
  [op |-> op, ns |-> ns, k |-> k, v |-> v, err |-> r.err,
   val |-> r.val, keys |-> r.keys, out |-> r.out]

\* A buffer in the caller's hands: the bytes it held when it was returned
\* (orig), the bytes read through it now (now), and whether its memory is
\* still mapped (valid).
Buffer(s) == [alias |-> s.alias, orig |-> s.data, now |-> s.data, valid |-> TRUE]

BuffersOf(slices) == [i \in 1..Len(slices) |-> Buffer(slices[i])]

\* The caller's buffers after a later write transaction has committed.  A
\* buffer that is the caller's own is untouched.  A buffer that is a view of
\* the engine's memory outlives the transaction it was valid for: the pages
\* under it may have been rewritten, so it reads as any bytes of its length.
AfterCommit(h) ==
  IF \A i \in 1..Len(h) : ~h[i].alias THEN {h}
  ELSE {g \in [1..Len(h) -> UNION {{[h[i] EXCEPT !.now = x] :
                                       x \in [1..Len(h[i].orig) -> Byte]} :
                                     i \in 1..Len(h)}] :
          \A i \in 1..Len(h) :
            /\ g[i].orig = h[i].orig /\ g[i].alias = h[i].alias
            /\ (~h[i].alias => g[i] = h[i])}

\* The caller's buffers after db.Close(): the file is unmapped, so a view of
\* the engine's memory can no longer be read.
AfterClose(h) ==
  [i \in 1..Len(h) |-> IF h[i].alias THEN [h[i] EXCEPT !.valid = FALSE] ELSE h[i]]

\* The concurrent clients (goroutines calling the store).
Threads == {1, 2}

\* A client that is not inside a call.  Of a call in progress: pc is its
\* place in the handler, tx the contents its transaction sees, cur the
\* cursor, names the buckets tx.ForEach has yet to visit, err, val, keys and
\* out the handler's results so far.  History: start is the committed
\* contents when the transaction began, overlap says that a write committed
\* while the read transaction was open, ntx counts the transactions begun.
Idle ==
  [pc |-> "idle", op |-> "none", ns |-> <<>>, k |-> <<>>, v |-> <<>>,
   tx |-> EmptyDB, start |-> EmptyDB, overlap |-> FALSE, ntx |-> 0, cur |-> 0,
   names |-> <<>>, err |-> NilErr, val |-> NilSlice, keys |-> <<>>, out |-> <<>>]

\* ------------------------------------------------------------ the factory
\* The engine names and file paths NewStore is called with. Go compares
\* strings byte by byte, so "Bbolt" and "bbolt " are not "bbolt".
Engines == {"bbolt", "", "Bbolt", "bbolt ", "badger"}
Paths == {"a.db", "b.db", "c.db"}

\* fmt.Errorf("motor de almacenamiento desconocido: %s", engine)
ErrUnknownEngine(engine) ==
  [text |-> <<"motor de almacenamiento desconocido">>, arg |-> <<engine>>]

\* The error of the operating system when the file cannot be opened.
ErrOpenFile == [text |-> <<"open failed">>, arg |-> <<>>]

\* The result of a constructor: whether a store is returned, the error, and
\* the path of the file it opened (creating it if it did not exist), if any.
NoFile == <<>>
NewResult(store, err, file) == [store |-> store, err |-> err, file |-> file]

\* bbolt.Open(path, 0600, nil): opens the file read-write, creating it if
\* it does not exist; openOK is whether the operating system allows it.
BboltOpen(path, openOK) ==
  IF openOK THEN NewResult(TRUE, NilErr, <<path>>)
  ELSE NewResult(FALSE, ErrOpenFile, NoFile)

\* NewBboltStore: the error of bbolt.Open is wrapped, and no store returned.
NewBboltStore(path, openOK) ==
  LET r == BboltOpen(path, openOK)
  IN  IF r.err # NilErr
      THEN NewResult(FALSE,
             Errorf("error al abrir base de datos bbolt", <<>>, r.err), NoFile)
      ELSE r

\* The mutant of NewStoreFn: the default case of the switch opens a bbolt
\* store too.
NewStoreAnyEngine(engine, path, openOK) == NewBboltStore(path, openOK)

\* NewStore: the switch on the engine name.
NewStoreFn(engine, path, openOK) ==
  IF engine = "bbolt" THEN NewBboltStore(path, openOK)
  ELSE NewResult(FALSE, ErrUnknownEngine(engine), NoFile)

NoStore ==
  [op |-> "none", engine |-> "", path |-> "", store |-> FALSE, err |-> NilErr,
   file |-> NoFile]

Init ==
  /\ opened = TRUE
  /\ data = EmptyDB
  /\ ret = NoCall
  /\ held = <<>>
  /\ live = {}
  /\ created = {}
  /\ gone = {}
  /\ nops = 0
  /\ thr = [t \in Threads |-> Idle]
  /\ wlock = 0
  /\ serial = EmptyDB
  /\ ncalls = 0
  /\ files = {}
  /\ stores = {}
  /\ made = NoStore
  /\ nnew = 0

\* ------------------------------------------------- the sequential client
\* commitOK is the outcome of the transaction's commit (a write to the
\* file, which may fail); it is drawn only where a commit is attempted.
CommitReached(res) == opened /\ res.err = NilErr

Put(ns, k, v, commitOK) ==
  /\ nops < MaxOps
  /\ commitOK \/ CommitReached(PutFn(data, ns, k, v))
  /\ LET r == PutCall(opened, data, ns, k, v, commitOK)
     IN  /\ data' = r.data
         /\ ret' = Returned("Put", ns, k, v, [ZeroRes EXCEPT !.err = r.err])
         /\ live' = IF r.err = NilErr THEN LivePut(live, ns, k, v)
                    ELSE live
         /\ created' = IF r.err = NilErr THEN created \cup {ns} ELSE created
         /\ gone' = IF r.err = NilErr THEN gone \ {[ns |-> ns, k |-> k]}
                    ELSE gone
         /\ held' \in (IF r.err = NilErr THEN AfterCommit(held) ELSE {held})
  /\ nops' = nops + 1
  /\ UNCHANGED opened
  /\ UNCHANGED <<concvars, facvars>>

Get(ns, k) ==
  /\ nops < MaxOps
  /\ LET r == GetCall(opened, data, ns, k)
     IN  /\ ret' = Returned("Get", ns, k, <<>>, r)
         /\ held' = IF r.err = NilErr THEN BuffersOf(<<r.val>>) ELSE held
  /\ nops' = nops + 1
  /\ UNCHANGED <<opened, data, live, created, gone>>
  /\ UNCHANGED <<concvars, facvars>>

Delete(ns, k, commitOK) ==
  /\ nops < MaxOps
  /\ commitOK \/ CommitReached(DeleteFn(data, ns, k))
  /\ LET r == DeleteCall(opened, data, ns, k, commitOK)
     IN  /\ data' = r.data
         /\ ret' = Returned("Delete", ns, k, <<>>, [ZeroRes EXCEPT !.err = r.err])
         /\ live' = IF r.err = NilErr THEN LiveDelete(live, ns, k)
                    ELSE live
         /\ gone' = IF r.err = NilErr /\ \E e \in live : e.ns = ns /\ e.k = k
                    THEN gone \cup {[ns |-> ns, k |-> k]}
                    ELSE gone
         /\ held' \in (IF r.err = NilErr THEN AfterCommit(held) ELSE {held})
  /\ nops' = nops + 1
  /\ UNCHANGED <<opened, created>>
  /\ UNCHANGED <<concvars, facvars>>

ListKeys(ns) ==
  /\ nops < MaxOps
  /\ LET r == ListKeysCall(opened, data, ns)
     IN  /\ ret' = Returned("ListKeys", ns, <<>>, <<>>, r)
         /\ held' = IF r.err = NilErr /\ r.keys # <<>> THEN BuffersOf(r.keys) ELSE held
  /\ nops' = nops + 1
  /\ UNCHANGED <<opened, data, live, created, gone>>
  /\ UNCHANGED <<concvars, facvars>>

KeysByPrefix(ns, prefix) ==
  /\ nops < MaxOps
  /\ LET r == KeysByPrefixCall(opened, data, ns, prefix)
     IN  /\ ret' = Returned("KeysByPrefix", ns, prefix, <<>>, r)
         /\ held' = IF r.err = NilErr /\ r.keys # <<>> THEN BuffersOf(r.keys) ELSE held
  /\ nops' = nops + 1
  /\ UNCHANGED <<opened, data, live, created, gone>>
  /\ UNCHANGED <<concvars, facvars>>

Dump ==
  /\ nops < MaxOps
  /\ ret' = Returned("Dump", <<>>, <<>>, <<>>, DumpCall(opened, data))
  /\ nops' = nops + 1
  /\ UNCHANGED <<opened, data, held, live, created, gone>>
  /\ UNCHANGED <<concvars, facvars>>

\* BboltStore.Close: db.Close() releases the file; it returns nil, also on a
\* database already closed.
Close ==
  /\ nops < MaxOps
  /\ opened' = FALSE
  /\ ret' = Returned("Close", <<>>, <<>>, <<>>, ZeroRes)
  /\ held' = AfterClose(held)
  /\ nops' = nops + 1
  /\ UNCHANGED <<data, live, created, gone>>
  /\ UNCHANGED <<concvars, facvars>>

Next ==
  \/ \E ns \in Namespaces, k \in Keys, v \in Values, ok \in BOOLEAN : Put(ns, k, v, ok)
  \/ \E ns \in Namespaces, k \in Keys : Get(ns, k)
  \/ \E ns \in Namespaces, k \in Keys, ok \in BOOLEAN : Delete(ns, k, ok)
  \/ \E ns \in Namespaces : ListKeys(ns)
  \/ \E ns \in Namespaces, prefix \in Prefixes : KeysByPrefix(ns, prefix)
  \/ Dump
  \/ Close

Spec == Init /\ [][Next]_vars

\* ------------------------------------------------- the concurrent clients
\* Each handler runs as the steps of its one transaction: begin (db.View or
\* db.Update), the closure's engine calls one at a time, and the end of the
\* transaction (for db.Update: commit or rollback).
ReadOps == {"Get", "ListKeys", "KeysByPrefix", "Dump"}
WriteOps == {"Put", "Delete"}

\* Inputs of the concurrent clients.
ConcNamespaces == {<<1>>}
ConcKeys == {<<>>, <<1>>, <<2>>}
ConcValues == {<<1>>, <<2>>}

\* The mutant of TxView: the closure reads the committed contents as they
\* are now, not as they were when its transaction began.
TxViewLive(t) == data

\* What the closure of client t reads through its transaction: db.View and
\* db.Update hand it the contents as of the transaction's begin (plus, for
\* db.Update, its own changes).
TxView(t) == thr[t].tx

\* The mutant of WriterLockFree: db.Update does not wait for the writer lock.
WriterLockIgnored == TRUE

\* db.Update blocks until no other write transaction holds the writer lock.
WriterLockFree == wlock = 0

\* Client t calls op(ns, k, v).
Call(t, op, ns, k, v) ==
  /\ thr[t].pc = "idle"
  /\ ncalls < MaxCalls
  /\ thr' = [thr EXCEPT ![t] = [Idle EXCEPT !.pc = "begin", !.op = op,
                                            !.ns = ns, !.k = k, !.v = v]]
  /\ ncalls' = ncalls + 1
  /\ UNCHANGED <<opened, data, wlock, serial, seqvars, facvars>>

\* db.View begins a read transaction: it never waits.
BeginView(t) ==
  /\ thr[t].pc = "begin" /\ thr[t].op \in ReadOps
  /\ thr' = [thr EXCEPT ![t] =
       IF ~opened THEN [@ EXCEPT !.pc = "end", !.err = ErrDatabaseNotOpen]
       ELSE [@ EXCEPT !.pc = IF thr[t].op = "Dump" THEN "foreach" ELSE "bucket",
                      !.tx = data, !.start = data, !.ntx = @ + 1,
                      !.names = SortedNames(DOMAIN data)]]
  /\ UNCHANGED <<opened, data, wlock, serial, ncalls, seqvars, facvars>>

\* db.Update begins the write transaction once the writer lock is free.
BeginUpdate(t) ==
  /\ thr[t].pc = "begin" /\ thr[t].op \in WriteOps
  /\ WriterLockFree
  /\ IF ~opened
     THEN /\ thr' = [thr EXCEPT ![t] = [@ EXCEPT !.pc = "done", !.err = ErrDatabaseNotOpen]]
          /\ UNCHANGED wlock
     ELSE /\ thr' = [thr EXCEPT ![t] = [@ EXCEPT !.pc = "bucket", !.tx = data,
                                                    !.start = data, !.ntx = @ + 1]]
          /\ wlock' = t
  /\ UNCHANGED <<opened, data, serial, ncalls, seqvars, facvars>>

\* The closure's first engine call: tx.Bucket (Get, Delete, ListKeys,
\* KeysByPrefix, with the cursor placed for the loops) or
\* tx.CreateBucketIfNotExists (Put).
OpenBucket(t) ==
  /\ thr[t].pc = "bucket"
  /\ LET c == thr[t]
         view == TxView(t)
     IN  thr' = [thr EXCEPT ![t] =
           IF c.op = "Put"
           THEN LET r == CreateBucketIfNotExists(c.tx, c.ns)
                IN  IF r.err # NilErr
                    THEN [c EXCEPT !.pc = "end",
                                   !.err = Errorf("error al crear/abrir bucket", c.ns, r.err)]
                    ELSE [c EXCEPT !.pc = "op", !.tx = r.tx]
           ELSE IF ~BucketExists(view, c.ns)
                THEN [c EXCEPT !.pc = "end", !.err = ErrBucketNotFound(c.ns)]
                ELSE CASE c.op = "ListKeys" ->
                            [c EXCEPT !.pc = "loop", !.cur = CursorFirst(view[c.ns])]
                       [] c.op = "KeysByPrefix" ->
                            [c EXCEPT !.pc = "loop", !.cur = CursorSeek(view[c.ns], c.k)]
                       [] OTHER -> [c EXCEPT !.pc = "op"]]
  /\ UNCHANGED <<opened, data, wlock, serial, ncalls, seqvars, facvars>>

\* The closure's call on the bucket: b.Put, b.Get or b.Delete.
BucketOp(t) ==
  /\ thr[t].pc = "op"
  /\ LET c == thr[t]
         view == TxView(t)
     IN  thr' = [thr EXCEPT ![t] =
           CASE c.op = "Put" ->
                  LET p == BucketPut(c.tx[c.ns], c.k, c.v)
                  IN  [c EXCEPT !.pc = "end", !.tx[c.ns] = p.b, !.err = p.err]
             [] c.op = "Delete" ->
                  LET d == BucketDelete(c.tx[c.ns], c.k)
                  IN  [c EXCEPT !.pc = "end", !.tx[c.ns] = d.b, !.err = d.err]
             [] OTHER ->
                  LET val == BucketGet(view[c.ns], c.k)
                  IN  [c EXCEPT !.pc = "end", !.val = val,
                                !.err = IF val.isnil THEN ErrKeyNotFound(c.k) ELSE NilErr]]
  /\ UNCHANGED <<opened, data, wlock, serial, ncalls, seqvars, facvars>>

\* One turn of the loop of ListKeys or KeysByPrefix: test the cursor's key,
\* copy and append it, move the cursor on.
CursorStep(t) ==
  /\ thr[t].pc = "loop"
  /\ LET c == thr[t]
         k == CursorKey(TxView(t)[c.ns], c.cur)
         stop == k.isnil \/ (c.op = "KeysByPrefix" /\ ~HasPrefix(k.data, c.k))
     IN  thr' = [thr EXCEPT ![t] =
           IF stop THEN [c EXCEPT !.pc = "end"]
           ELSE [c EXCEPT !.keys = Append(c.keys, CopyBytes(k)),
                          !.cur = CursorNext(c.cur)]]
  /\ UNCHANGED <<opened, data, wlock, serial, ncalls, seqvars, facvars>>

\* One turn of tx.ForEach in Dump: the next bucket and its pairs are printed.
DumpStep(t) ==
  /\ thr[t].pc = "foreach"
  /\ LET c == thr[t]
     IN  thr' = [thr EXCEPT ![t] =
           IF c.names = <<>> THEN [c EXCEPT !.pc = "end"]
           ELSE [c EXCEPT !.names = Tail(c.names),
                          !.out = c.out \o DumpBuckets(TxView(t), <<Head(c.names)>>)]]
  /\ UNCHANGED <<opened, data, wlock, serial, ncalls, seqvars, facvars>>

\* db.View returns: the read transaction is closed and the handler returns
\* (Dump wraps an error).
EndView(t) ==
  /\ thr[t].pc = "end" /\ thr[t].op \in ReadOps
  /\ thr' = [thr EXCEPT ![t] =
       [@ EXCEPT !.pc = "done",
                 !.err = IF thr[t].op = "Dump" /\ thr[t].err # NilErr
                         THEN Errorf("error al hacer el volcado de depuracion", <<>>, thr[t].err)
                         ELSE thr[t].err]]
  /\ UNCHANGED <<opened, data, wlock, serial, ncalls, seqvars, facvars>>

\* The write call of client t run whole on contents d.
WholeWrite(t, d, commitOK) ==
  IF thr[t].op = "Put" THEN PutCall(TRUE, d, thr[t].ns, thr[t].k, thr[t].v, commitOK)
  ELSE DeleteCall(TRUE, d, thr[t].ns, thr[t].k, commitOK)

\* The mutant of LockAfterEnd: the writer lock is released by a commit only,
\* and stays with the client whose transaction was rolled back.
LockAfterEndLeak(t, err) == IF err # NilErr THEN t ELSE 0

\* The holder of the writer lock after db.Update has ended the transaction
\* of client t with result err: nobody, whether it committed or rolled back.
LockAfterEnd(t, err) == 0

\* db.Update ends the write transaction: rollback if the closure returned an
\* error, else commit (which may fail); the writer lock is released.
EndUpdate(t, commitOK) ==
  /\ thr[t].pc = "end" /\ thr[t].op \in WriteOps
  /\ commitOK \/ thr[t].err = NilErr
  /\ LET r == DbUpdate(TRUE, data, [tx |-> thr[t].tx, err |-> thr[t].err], commitOK)
     IN  /\ data' = r.data
         /\ serial' = WholeWrite(t, serial, commitOK).data
         /\ thr' = [u \in Threads |->
              IF u = t THEN [thr[t] EXCEPT !.pc = "done", !.err = r.err]
              ELSE IF thr[u].op \in ReadOps /\ thr[u].pc \in {"bucket", "op", "loop", "foreach"}
                                            /\ r.data # data
                   THEN [thr[u] EXCEPT !.overlap = TRUE]
                   ELSE thr[u]]
         /\ wlock' = LockAfterEnd(t, r.err)
  /\ UNCHANGED <<opened, ncalls, seqvars, facvars>>

\* The caller has its result and is free to call again.
Return(t) ==
  /\ thr[t].pc = "done"
  /\ thr' = [thr EXCEPT ![t] = Idle]
  /\ UNCHANGED <<opened, data, wlock, serial, ncalls, seqvars, facvars>>

ConcNext ==
  \/ \E t \in Threads, ns \in ConcNamespaces, k \in ConcKeys, v \in ConcValues :
       Call(t, "Put", ns, k, v)
  \/ \E t \in Threads, ns \in ConcNamespaces, k \in ConcKeys :
       \/ Call(t, "Get", ns, k, <<>>)
       \/ Call(t, "Delete", ns, k, <<>>)
       \/ Call(t, "KeysByPrefix", ns, k, <<>>)
  \/ \E t \in Threads, ns \in ConcNamespaces : Call(t, "ListKeys", ns, <<>>, <<>>)
  \/ \E t \in Threads : Call(t, "Dump", <<>>, <<>>, <<>>)
  \/ \E t \in Threads : BeginView(t)
  \/ \E t \in Threads : BeginUpdate(t)
  \/ \E t \in Threads : OpenBucket(t)
  \/ \E t \in Threads : BucketOp(t)
  \/ \E t \in Threads : CursorStep(t)
  \/ \E t \in Threads : DumpStep(t)
  \/ \E t \in Threads : EndView(t)
  \/ \E t \in Threads, ok \in BOOLEAN : EndUpdate(t, ok)
  \/ \E t \in Threads : Return(t)

ConcSpec == Init /\ [][ConcNext]_vars

\* Client t has begun a transaction that has not ended.
InTx(t) == thr[t].ntx > 0 /\ thr[t].pc # "done"

\* db.Close(): it waits until no transaction is open, then closes the
\* database; on a database already closed it does the same and returns nil.
DbClose(t) ==
  /\ thr[t].pc = "begin" /\ thr[t].op = "Close"
  /\ wlock = 0
  /\ \A u \in Threads : ~InTx(u)
  /\ opened' = FALSE
  /\ thr' = [thr EXCEPT ![t] = [@ EXCEPT !.pc = "done"]]
  /\ UNCHANGED <<data, wlock, serial, ncalls, seqvars, facvars>>

\* One step of the call of client t, between its start and its return.
Step(t) ==
  \/ BeginView(t)
  \/ BeginUpdate(t)
  \/ OpenBucket(t)
  \/ BucketOp(t)
  \/ CursorStep(t)
  \/ DumpStep(t)
  \/ EndView(t)
  \/ \E ok \in BOOLEAN : EndUpdate(t, ok)
  \/ DbClose(t)

\* The concurrent clients with Close among their calls.
FairNext ==
  \/ ConcNext
  \/ \E t \in Threads : Call(t, "Close", <<>>, <<>>, <<>>)
  \/ \E t \in Threads : DbClose(t)

\* The concurrent clients under fair scheduling. The Go scheduler runs every
\* runnable goroutine again and again (weak fairness of each client's
\* steps). The engine's writer lock is a sync.Mutex, which hands the lock to
\* a goroutine that has waited for it before those that arrive later, and
\* Close takes the engine's locks in the same way (strong fairness of
\* taking the lock and of closing). Whether and when a client makes a call
\* is its own choice: Call and Return carry no fairness.
FairSpec ==
  /\ Init
  /\ [][FairNext]_vars
  /\ \A t \in Threads :
       WF_vars(Step(t)) /\ SF_vars(BeginUpdate(t)) /\ SF_vars(DbClose(t))

\* ------------------------------------------------- the client of NewStore
\* NewStore(engine, path). bbolt.Open takes an exclusive lock on the file
\* and, with no timeout option, waits for it: a call for a path that a store
\* still holds open does not return until that store is closed.
NewStore(engine, path, openOK) ==
  /\ nnew < MaxNew
  /\ ~(engine = "bbolt" /\ openOK /\ path \in stores)
  /\ LET r == NewStoreFn(engine, path, openOK)
     IN  /\ made' = [op |-> "NewStore", engine |-> engine, path |-> path,
                     store |-> r.store, err |-> r.err, file |-> r.file]
         /\ files' = files \cup {r.file[i] : i \in 1..Len(r.file)}
         /\ stores' = IF r.store THEN stores \cup {path} ELSE stores
  /\ nnew' = nnew + 1
  /\ UNCHANGED <<opened, data, seqvars, concvars>>

\* Close() of a store NewStore returned: the file is released and stays on
\* disk.
StoreClose(path) ==
  /\ nnew < MaxNew
  /\ path \in stores
  /\ stores' = stores \ {path}
  /\ made' = [NoStore EXCEPT !.op = "Close", !.path = path]
  /\ nnew' = nnew + 1
  /\ UNCHANGED <<files, opened, data, seqvars, concvars>>

FactoryNext ==
  \/ \E engine \in Engines, path \in Paths, ok \in BOOLEAN :
       NewStore(engine, path, ok)
  \/ \E path \in Paths : StoreClose(path)

FactorySpec == Init /\ [][FactoryNext]_vars

\* ------------------------------------------------------------ the claims
\* The bytes of a sequence of returned slices.
DataOf(slices) == [i \in 1..Len(slices) |-> slices[i].data]

\* A sequence of keys in strictly ascending lexicographic byte order.
StrictlyAscending(ks) ==
  \A i \in 1..Len(ks) : \A j \in 1..Len(ks) : i < j => LessBytes(ks[i], ks[j])

\* The keys of ns that a committed Put wrote and no later committed Delete
\* removed.
LiveKeys(ns) == {e.k : e \in {x \in live : x.ns = ns}}

\* The entry of (ns, k) in the history, if any.
LiveHas(ns, k) == \E e \in live : e.ns = ns /\ e.k = k
LiveEntry(ns, k) == CHOOSE e \in live : e.ns = ns /\ e.k = k

\* k starts with p.
StartsWith(k, p) == \E n \in 0..Len(k) : SubSeq(k, 1, n) = p

\* The step is the public call recorded in ret'.
CallStep == nops' = nops + 1

\* An error that reports the closed database: its message ends with bbolt's
\* "database not open".
IsClosedError(e) ==
  Len(e.text) > 0 /\ e.text[Len(e.text)] = "database not open"

\* C1: on an open store, Get(ns,k) on a pair that a committed Put wrote and
\* no later committed Delete removed succeeds and returns the value of the
\* most recently committed Put(ns,k,_).
C1_GetReturnsLastPut ==
  (ret.op = "Get" /\ opened /\ LiveHas(ret.ns, ret.k))
    => /\ ret.err = NilErr
       /\ ~ret.val.isnil
       /\ ret.val.data = LiveEntry(ret.ns, ret.k).v

\* C1 witness: a Get that returned v2 after Put(ns,k,v1), Put(ns,k,v2).
C1_Witness ==
  /\ ret.op = "Get" /\ ret.err = NilErr
  /\ LiveHas(ret.ns, ret.k) /\ LiveEntry(ret.ns, ret.k).over
  /\ ret.val.data = LiveEntry(ret.ns, ret.k).v

C4_FailedWriteChangesNothing ==
  [][(CallStep /\ ret'.op \in {"Put", "Delete"} /\ ret'.err # NilErr)
       => data' = data]_vars

\* C4 witness: a Put failed after its transaction had created the namespace
\* (the key was rejected), and the namespace is absent.
C4_Witness ==
  /\ ret.op = "Put" /\ ret.err = ErrKeyRequired
  /\ Len(ret.ns) > 0 /\ ~BucketExists(data, ret.ns)

\* The result the read call of client t has on contents d when it runs
\* alone.
WholeRead(t, d) ==
  CASE thr[t].op = "Get" -> GetCall(TRUE, d, thr[t].ns, thr[t].k)
    [] thr[t].op = "ListKeys" -> ListKeysCall(TRUE, d, thr[t].ns)
    [] thr[t].op = "KeysByPrefix" -> KeysByPrefixCall(TRUE, d, thr[t].ns, thr[t].k)
    [] OTHER -> DumpCall(TRUE, d)

\* Client t is inside a write transaction.
InWriteTx(t) == thr[t].op \in WriteOps /\ thr[t].pc \in {"bucket", "op", "end"}

\* C5: a read call (Get, ListKeys, KeysByPrefix, Dump) returns what it
\* returns when run alone on the contents committed when its read
\* transaction began, whatever writes commit while it runs.
C5_ReadsSeeSnapshot ==
  \A t \in Threads :
    (thr[t].pc = "done" /\ thr[t].op \in ReadOps)
      => LET r == WholeRead(t, thr[t].start)
         IN  /\ thr[t].err = r.err /\ thr[t].val = r.val
             /\ thr[t].keys = r.keys /\ thr[t].out = r.out

\* C5 witness: a ListKeys returned the keys of before a write that committed
\* while it was running and changed the namespace.
C5_Witness ==
  \E t \in Threads :
    /\ thr[t].pc = "done" /\ thr[t].op = "ListKeys" /\ thr[t].overlap
    /\ Len(thr[t].keys) >= 1
    /\ ListKeysCall(TRUE, data, thr[t].ns).keys # thr[t].keys

\* C6: at most one write transaction is in flight at a time, a call begins
\* at most one transaction, and the committed contents are those of running
\* the write calls whole, one after another, in the order of their commits.
C6_WritesSerialized ==
  /\ Cardinality({t \in Threads : InWriteTx(t)}) <= 1
  /\ \A t \in Threads : thr[t].ntx <= 1 /\ (thr[t].pc = "done" => thr[t].ntx = 1)
  /\ data = serial

\* C6 witness: a write call waits at db.Update while another client is
\* inside its write transaction, after an earlier write has committed.
C6_Witness ==
  \E t \in Threads, u \in Threads :
    /\ InWriteTx(t) /\ thr[t].pc = "end"
    /\ thr[u].op \in WriteOps /\ thr[u].pc = "begin"
    /\ data # EmptyDB

\* C7: once Close has returned, every Put, Get, Delete, ListKeys,
\* KeysByPrefix and Dump fails with an error reporting the closed database,
\* returns nothing, and the stored contents never change.
C7_ClosedStoreRejects ==
  [][(~opened)
       => /\ data' = data
          /\ ~opened'
          /\ (CallStep /\ ret'.op # "Close")
               => /\ IsClosedError(ret'.err)
                  /\ ret'.val = NilSlice /\ ret'.keys = <<>> /\ ret'.out = <<>>]_vars

\* C7 witness: a Get of a stored pair failed on the closed store.
C7_Witness ==
  /\ ~opened /\ ret.op = "Get" /\ ret.err = ErrDatabaseNotOpen
  /\ LiveHas(ret.ns, ret.k)

\* C8 as stated: every buffer handed to the caller stays readable and keeps
\* the bytes it was returned with, whatever the store does afterwards.
C8_BuffersAreCopies ==
  \A i \in 1..Len(held) : held[i].valid /\ held[i].now = held[i].orig

\* C9: on an open store, ListKeys(ns) on a namespace a committed Put wrote
\* to succeeds and returns, in strictly ascending byte order and without
\* duplicates, exactly the keys put in ns and not deleted since.
C9_ListKeysOrdered ==
  (ret.op = "ListKeys" /\ opened /\ ret.ns \in created)
    => /\ ret.err = NilErr
       /\ StrictlyAscending(DataOf(ret.keys))
       /\ {ret.keys[i].data : i \in 1..Len(ret.keys)} = LiveKeys(ret.ns)

\* C9 witness: ListKeys returned two keys or more.
C9_Witness ==
  ret.op = "ListKeys" /\ ret.err = NilErr /\ Len(ret.keys) >= 2

\* C10: on an open store, KeysByPrefix(ns,p) on a namespace a committed Put
\* wrote to succeeds and returns, in ascending byte order, exactly the keys
\* of ns that start with p.
C10_PrefixScanExact ==
  (ret.op = "KeysByPrefix" /\ opened /\ ret.ns \in created)
    => /\ ret.err = NilErr
       /\ StrictlyAscending(DataOf(ret.keys))
       /\ {ret.keys[i].data : i \in 1..Len(ret.keys)}
            = {k \in LiveKeys(ret.ns) : StartsWith(k, ret.k)}

\* C10 witness: a scan that found a key although a smaller key that does not
\* start with the prefix is stored before it.
C10_Witness ==
  /\ ret.op = "KeysByPrefix" /\ ret.err = NilErr /\ Len(ret.keys) >= 1
  /\ \E k \in LiveKeys(ret.ns) : LessBytes(k, ret.k) /\ ~StartsWith(k, ret.k)

\* NotFoundError: one of the two errors of a lookup that finds nothing, the
\* namespace's bucket or the key in it.
IsNotFound(e, ns, k) == e = ErrBucketNotFound(ns) \/ e = ErrKeyNotFound(k)

\* C11. On an open store, a Get(ns, k) that directly follows a Delete(ns, k)
\* whose transaction did not fail at commit fails with NotFoundError and
\* returns no value, whatever was put at (ns, k) before.
C11_DeleteThenMiss ==
  [][(CallStep /\ opened /\ ret.op = "Delete" /\ ret.err # ErrCommit
        /\ ret'.op = "Get" /\ ret'.ns = ret.ns /\ ret'.k = ret.k)
       => (IsNotFound(ret'.err, ret'.ns, ret'.k) /\ ret'.val = NilSlice)]_vars

\* Put(ns, k, v), Delete(ns, k), Get(ns, k) have run in this order, the first
\* two with success, and the Get reported the key as not found.
C11_Witness ==
  /\ nops = 3
  /\ ret.op = "Get" /\ ret.err = ErrKeyNotFound(ret.k)
  /\ [ns |-> ret.ns, k |-> ret.k] \in gone

\* C12. On an open store, Delete(ns, k) fails with the NotFoundError of the
\* namespace when no committed Put ever wrote to ns; when ns exists and holds
\* no entry for k, Delete returns success unless its commit fails; in both
\* cases the contents of the store are unchanged.
C12_DeleteOfAbsent ==
  [][(CallStep /\ opened /\ ret'.op = "Delete")
       => /\ (ret'.ns \notin created)
               => (ret'.err = ErrBucketNotFound(ret'.ns) /\ data' = data)
          /\ (ret'.ns \in created /\ ~LiveHas(ret'.ns, ret'.k))
               => (ret'.err \in {NilErr, ErrCommit} /\ data' = data)]_vars

\* A Delete returned success for a key that its namespace, which holds other
\* keys, did not hold.
C12_Witness ==
  /\ ret.op = "Delete" /\ ret.err = NilErr
  /\ ret.ns \in created /\ LiveKeys(ret.ns) # {}
  /\ [ns |-> ret.ns, k |-> ret.k] \notin gone

\* The entries of namespace n in contents d; no entries if n does not exist.
BucketOf(d, n) == IF BucketExists(d, n) THEN d[n] ELSE <<>>

\* C13. A Put or Delete on one namespace leaves every other namespace as it
\* was, in existence and in entries; and on an open store a Get(ns, k)
\* succeeds only if a committed Put wrote (ns, k) itself, so that a Put of
\* the same key in another namespace does not make it succeed.
C13_NamespacesIsolated ==
  [][CallStep =>
       /\ (ret'.op \in {"Put", "Delete"}) =>
            \A n \in Namespaces \ {ret'.ns} :
              /\ BucketExists(data', n) <=> BucketExists(data, n)
              /\ BucketOf(data', n) = BucketOf(data, n)
       /\ (ret'.op = "Get" /\ ret'.err = NilErr) => LiveHas(ret'.ns, ret'.k)]_vars

\* A Get failed for a key that another namespace holds, in a namespace that
\* exists.
C13_Witness ==
  /\ ret.op = "Get" /\ ret.err = ErrKeyNotFound(ret.k)
  /\ ret.ns \in created
  /\ \E e \in live : e.k = ret.k /\ e.ns # ret.ns

\* C14. The namespaces that exist are exactly those a committed Put wrote
\* to: none exists before the first Put, and one that exists stays, also
\* when a Delete has removed its last key. On an open store, in a namespace
\* that exists and holds no key, ListKeys and KeysByPrefix succeed with an
\* empty result and Delete succeeds unless its commit fails.
C14_NamespaceStays ==
  /\ DOMAIN data = created
  /\ (opened /\ ret.ns \in created /\ LiveKeys(ret.ns) = {}) =>
       /\ (ret.op \in {"ListKeys", "KeysByPrefix"})
            => (ret.err = NilErr /\ ret.keys = <<>>)
       /\ (ret.op = "Delete") => (ret.err \in {NilErr, ErrCommit})

\* ListKeys returned an empty list, with success, for a namespace whose only
\* key a Delete had removed.
C14_Witness ==
  /\ ret.op = "ListKeys" /\ ret.err = NilErr /\ ret.keys = <<>>
  /\ ret.ns \in created
  /\ \E g \in gone : g.ns = ret.ns

\* C15. On an open store, Get(ns, k) fails with NotFoundError, and returns
\* no value, exactly when ns does not exist or holds no entry for k, and
\* succeeds otherwise; ListKeys(ns) and KeysByPrefix(ns, p) fail with
\* NotFoundError exactly when ns does not exist, and succeed otherwise.
C15_NotFoundExactly ==
  opened =>
    /\ (ret.op = "Get") =>
         /\ (ret.err = ErrBucketNotFound(ret.ns)) <=> (ret.ns \notin created)
         /\ (ret.err = ErrKeyNotFound(ret.k))
              <=> (ret.ns \in created /\ ~LiveHas(ret.ns, ret.k))
         /\ (ret.err = NilErr) <=> LiveHas(ret.ns, ret.k)
         /\ (ret.err # NilErr) => ret.val = NilSlice
    /\ (ret.op \in {"ListKeys", "KeysByPrefix"}) =>
         /\ (ret.err = ErrBucketNotFound(ret.ns)) <=> (ret.ns \notin created)
         /\ (ret.err = NilErr) <=> (ret.ns \in created)

\* ListKeys failed for a namespace that does not exist while another one
\* does, and its error names the namespace asked for.
C15_Witness ==
  /\ opened /\ ret.op = "ListKeys"
  /\ ret.err = ErrBucketNotFound(ret.ns)
  /\ Len(ret.ns) > 0 /\ created # {}

\* Client t is inside a call that has not yet produced its result.
InCall(t) == thr[t].pc \notin {"idle", "done"}

\* Client t waits to begin its write transaction while client u holds the
\* writer lock.
WaitsFor(t, u) ==
  /\ thr[t].pc = "begin" /\ thr[t].op \in WriteOps
  /\ u # t /\ wlock = u

C17_OnlyBbolt ==
  [][(nnew' = nnew + 1 /\ made'.op = "NewStore") =>
       /\ made'.store => made'.engine = "bbolt"
       /\ (made'.engine # "bbolt") =>
            /\ made'.err = ErrUnknownEngine(made'.engine)
            /\ ~made'.store
            /\ made'.file = NoFile
            /\ files' = files /\ stores' = stores]_vars

\* NewStore was called with a name that differs from "bbolt" in case only,
\* for a path with no file: it failed and there is still no file.
C17_Witness ==
  /\ made.op = "NewStore" /\ made.engine = "Bbolt"
  /\ made.err = ErrUnknownEngine("Bbolt") /\ ~made.store
  /\ made.path \notin files

\* C18. On an open store, a Get of a pair whose last committed Put stored a
\* value of length zero succeeds and returns a value that is not nil and has
\* length zero; and every Get whose returned value is nil failed: it
\* reported the NotFoundError of the namespace or of the key.
C18_EmptyValueIsPresent ==
  (opened /\ ret.op = "Get") =>
    /\ (LiveHas(ret.ns, ret.k) /\ LiveEntry(ret.ns, ret.k).v = <<>>)
         => (ret.err = NilErr /\ ~ret.val.isnil /\ ret.val.data = <<>>)
    /\ ret.val.isnil => IsNotFound(ret.err, ret.ns, ret.k)

\* A Get returned, with success, the empty value that a Put had stored over
\* a value that was not empty.
C18_Witness ==
  /\ opened /\ ret.op = "Get" /\ ret.err = NilErr
  /\ ~ret.val.isnil /\ ret.val.data = <<>>
  /\ LiveHas(ret.ns, ret.k) /\ LiveEntry(ret.ns, ret.k).over

\* C19. A Get, ListKeys, KeysByPrefix or Dump, whether it succeeds or fails,
\* leaves the namespaces and their entries as they were; and a read or a
\* Delete on a namespace that does not exist does not make it exist.
C19_ReadsChangeNothing ==
  [][CallStep =>
       /\ (ret'.op \in ReadOps) => data' = data
       /\ (ret'.op \in ReadOps \cup {"Delete"} /\ ~BucketExists(data, ret'.ns))
            => (~BucketExists(data', ret'.ns) /\ data' = data)]_vars

\* A Delete on a namespace that does not exist, its name not empty, failed
\* and the namespace still does not exist, while another one does.
C19_Witness ==
  /\ opened /\ ret.op = "Delete" /\ ret.err = ErrBucketNotFound(ret.ns)
  /\ Len(ret.ns) > 0 /\ ~BucketExists(data, ret.ns)
  /\ data # EmptyDB

\* The entries <<namespace, key, value>> of contents d other than the entry
\* of (ns, k).
EntriesBut(d, ns, k) ==
  UNION {{<<n, d[n][i].k, d[n][i].v>> : i \in 1..Len(d[n])} : n \in DOMAIN d}
    \ {<<ns, k, v>> : v \in Values}

\* C20. A Put(ns, k, v) or Delete(ns, k) that returns success changes the
\* entry of (ns, k) and nothing else: every other entry, of ns and of the
\* other namespaces, is as before, no namespace is removed, and the only
\* namespace that may be added is ns, by Put.
C20_WritesAreLocal ==
  [][(CallStep /\ ret'.op \in WriteOps /\ ret'.err = NilErr) =>
       /\ EntriesBut(data', ret'.ns, ret'.k) = EntriesBut(data, ret'.ns, ret'.k)
       /\ DOMAIN data \subseteq DOMAIN data'
       /\ DOMAIN data' \subseteq
            DOMAIN data \cup (IF ret'.op = "Put" THEN {ret'.ns} ELSE {})]_vars

\* A Put succeeded in a namespace that holds other keys too, and replaced
\* the value of its own key.
C20_Witness ==
  /\ ret.op = "Put" /\ ret.err = NilErr
  /\ LiveEntry(ret.ns, ret.k).over
  /\ Cardinality(LiveKeys(ret.ns)) >= 2

=============================================================================
